---- MODULE Spec2Model ----
(***************************************************************************)
(* Relative Lempel-Ziv compression of string collections.                  *)
(*                                                                         *)
(* Four specifications share this module:                                  *)
(*   SpecTree  the suffix tree builder (init_suffix_tree) run step by step  *)
(*             over a bounded set of texts, followed by longest_substring  *)
(*             queries on the finished tree;                               *)
(*   Spec      the encode / decode / random_access pipeline of             *)
(*             RelativeLempelZiv, with the parallel workers of             *)
(*             encode_parts interleaved;                                   *)
(*   SpecWide  the same pipeline on strings long enough to reach the       *)
(*             limits of the integer type of the factor fields;            *)
(*   SpecMerge encode_reference_merge, one block of its loop at a time.    *)
(*                                                                         *)
(* Bytes are naturals 0..255, strings are sequences of bytes.  Indices of  *)
(* the program are 0-based; At(s, j) reads element j of a 0-based vector.  *)
(***************************************************************************)
EXTENDS Integers, Sequences, FiniteSets, TLC

(***************************************************************************)
(* Bounds of the model.                                                    *)
(***************************************************************************)
MaxTreeLen == 5
MaxQueryLen == 3
MaxStrings == 2
MaxLen == 2
MaxMergeInputs == 2
MaxMergeLen == 2

(***************************************************************************)
(* Values.                                                                 *)
(***************************************************************************)
\* LabelData::Sep, the one label element that is not a byte.
Sep == 256
\* Option::None for node ids, suffix indices and results.
None == -1

At(s, j) == s[j + 1]

\* All sequences over S of length 0..n.
SeqsUpTo(S, n) == UNION {[1..k -> S] : k \in 0..n}

\* The bytes of the texts the tree is built over: "a", "b", "c".
TreeAlphabet == {97, 98, 99}

Banana == <<98, 97, 110, 97, 110, 97>>
Mississippi == <<109, 105, 115, 115, 105, 115, 115, 105, 112, 112, 105>>
\* The nine UTF-8 bytes of a three-character CJK string.
RubberDuck == <<230, 169, 161, 231, 154, 174, 233, 184, 173>>
Abacad == <<97, 98, 97, 99, 97, 100>>

\* Texts a suffix tree is built over.
TreeTexts ==
    SeqsUpTo(TreeAlphabet, MaxTreeLen) \cup {Banana, Mississippi, RubberDuck, Abacad}

\* Byte slices handed to longest_substring: "ban", "anana", "xqr", "issi",
\* "issip", "d" and every short slice over the alphabet.
Queries ==
    (SeqsUpTo(TreeAlphabet, MaxQueryLen) \ {<<>>})
    \cup {<<98, 97, 110>>, <<97, 110, 97, 110, 97>>, <<120, 113, 114>>,
          <<105, 115, 115, 105>>, <<105, 115, 115, 105, 112>>, <<100>>}

\* The bytes of the strings that are encoded: "A" and "a".
Alphabet == {65, 97}

\* The alphabet suffix base_string appends: "ACGTN".
ACGTN == <<65, 67, 71, 84, 78>>

\* A collection whose reference holds every byte of its strings:
\* ["ababba", "aa"].
AbabbaAa == <<<<97, 98, 97, 98, 98, 97>>, <<97, 97>>>>

\* The lists of strings handed to encode.
Inputs == SeqsUpTo(SeqsUpTo(Alphabet, MaxLen), MaxStrings) \cup {AbabbaAa}

\* The argument n of encode: None, or Some list of indices into the strings.
NoIndices == [some |-> FALSE, list |-> <<>>]
IndexChoices ==
    {NoIndices} \cup {[some |-> TRUE, list |-> l] : l \in {<<>>, <<0>>, <<1>>}}

\* The largest value of the integer type U of the factor fields (u8).
UMax == 255

\* The first k bytes of "abc..xyz" repeated.
Cycle(k) == [j \in 1..k |-> 97 + ((j - 1) % 26)]

\* Lists of strings whose factors come up to, or go over, what a u8 holds:
\* the reference is the first string followed by "ACGTN", and "N" is found
\* at its last position.  With a first string of 250 bytes the factor of
\* "N" is (254, 255), with 251 bytes its end is 256, with 252 its start is
\* 256; against the 26 letters, nine or ten factors of 26 bytes come before
\* the factor of "N", whose len is 234 or 260.
WideInputs ==
    {<<Cycle(250), <<78>>>>, <<Cycle(251), <<78>>>>, <<Cycle(252), <<78>>>>,
     <<Cycle(26), Cycle(234) \o <<78>>>>, <<Cycle(26), Cycle(260) \o <<78>>>>}

\* The names of the inputs of encode_reference_merge.
MergeNames == {"x", "y"}

\* A named input: the (string, name) tuple.
Named(string, name) == [string |-> string, name |-> name]

\* "abcdefgh" and the same bytes in another order, "ghefcdab".
Abcdefgh == <<97, 98, 99, 100, 101, 102, 103, 104>>
Ghefcdab == <<103, 104, 101, 102, 99, 100, 97, 98>>

\* Four inputs alike and one that factorizes badly against them.
FourAndOne ==
    <<Named(Abcdefgh, "x1"), Named(Abcdefgh, "x2"), Named(Abcdefgh, "x3"),
      Named(Abcdefgh, "x4"), Named(Ghefcdab, "y1")>>

\* Three inputs alike.
ThreeAlike ==
    <<Named(Abcdefgh, "x1"), Named(Abcdefgh, "x2"), Named(Abcdefgh, "x3")>>

\* The lists of named inputs handed to encode_reference_merge.
MergeInputs ==
    SeqsUpTo({Named(str, name) : str \in SeqsUpTo({97}, MaxMergeLen),
                                 name \in MergeNames},
             MaxMergeInputs)
    \cup {FourAndOne, ThreeAlike}

(***************************************************************************)
(* Node arena.                                                             *)
(***************************************************************************)
EmptyChildren == [k \in {} |-> None]

\* Node::new: no children, no suffix link, the end shared with global_end
\* (open = TRUE), no suffix index yet.
NewNode(id, parent, start) ==
    [id |-> id, parent |-> parent, children |-> EmptyChildren,
     suffix_link |-> None, start |-> start, end |-> 0, open |-> TRUE,
     suffix_index |-> None]

HasChild(n, k) == k \in DOMAIN n.children

\* BTreeMap::insert: a later insert under the same key replaces the entry.
InsertChild(children, k, id) ==
    [x \in DOMAIN children \cup {k} |-> IF x = k THEN id ELSE children[x]]

IsRoot(n) == n.parent = None
IsLeaf(n) == DOMAIN n.children = {}
IsInternalNode(n) == ~IsRoot(n) /\ ~IsLeaf(n)

\* PartialEq for LabelData: two bytes of the same value, or two separators.
Eq(x, y) ==
    IF x # Sep /\ y # Sep THEN x = y
    ELSE x = Sep /\ y = Sep

\* Ord for LabelData as the tree's children maps use it: a byte against the
\* separator is Less, the separator against a byte is Greater.
Cmp(x, y) ==
    IF x # Sep /\ y # Sep
    THEN (IF x < y THEN "Less" ELSE IF x = y THEN "Equal" ELSE "Greater")
    ELSE IF x = Sep /\ y = Sep THEN "Equal"
    ELSE IF y = Sep THEN "Less"
    ELSE "Greater"

\* Ord for LabelData in types/label_data.rs: a byte against the separator
\* is Greater, the separator against a byte is Less.
LabelDataCmp(x, y) ==
    IF x # Sep /\ y # Sep
    THEN (IF x < y THEN "Less" ELSE IF x = y THEN "Equal" ELSE "Greater")
    ELSE IF x = Sep /\ y = Sep THEN "Equal"
    ELSE IF y = Sep THEN "Greater"
    ELSE "Less"

\* The key an ordered iteration over the children of n visits first: the
\* least key of the BTreeMap under Ord.
FirstChildKey(n) ==
    CHOOSE k \in DOMAIN n.children :
        \A x \in DOMAIN n.children : Cmp(k, x) # "Greater"

\* Node::end reads the shared cell for a node that still holds global_end.
NodeEnd(n, global_end) == IF n.open THEN global_end ELSE n.end
NodeLength(n, global_end) == NodeEnd(n, global_end) - n.start

(***************************************************************************)
(* The builder: init_suffix_tree as a step function on its local state.    *)
(***************************************************************************)
\* bytes_and_sep: the bytes of s followed by the separator.
BytesAndSep(s) == Append(s, Sep)

InitBuilder(s) ==
    [string |-> BytesAndSep(s),
     nodes |-> <<NewNode(0, None, 0)>>,
     global_end |-> 0,
     last_new_node |-> None,
     active_node |-> 0,
     active_edge |-> 0,
     active_length |-> 0,
     remaining_suffix_count |-> 0,
     i |-> 0,
     next_byte |-> None,
     pc |-> "for",
     panic |-> "none"]

Panic(b, why) == [b EXCEPT !.pc = "panic", !.panic = why]

\* `break` out of the while loop: the for loop moves to the next position.
EndPhase(b) == [b EXCEPT !.i = @ + 1, !.pc = "for", !.next_byte = None]

\* A loop head that leaves global_end where it is, so that the leaves
\* created in the phase do not reach the current position.
ForStepFixedEnd(b) ==
    IF b.i >= Len(b.string)
    THEN [b EXCEPT !.pc = "done"]
    ELSE [b EXCEPT !.remaining_suffix_count = @ + 1,
                   !.last_new_node = None,
                   !.pc = "while"]

\* Head of `for (i, &b) in bytes_and_sep.iter().enumerate()`.
ForStep(b) ==
    IF b.i >= Len(b.string)
    THEN [b EXCEPT !.pc = "done"]
    ELSE [b EXCEPT !.global_end = @ + 1,
                   !.remaining_suffix_count = @ + 1,
                   !.last_new_node = None,
                   !.pc = "while"]

\* A branch `active_length == 0` that hangs the new leaf below the node
\* created last instead of below active_node.
RootStepBelowLastNode(b) ==
    LET cur == At(b.string, b.i)
        an == At(b.nodes, b.active_node)
        last == b.nodes[Len(b.nodes)]
    IN IF HasChild(an, cur)
       THEN EndPhase([b EXCEPT !.active_edge = At(b.nodes, an.children[cur]).start,
                               !.active_length = @ + 1])
       ELSE LET new_node == NewNode(Len(b.nodes), last.id, b.i)
            IN [b EXCEPT !.nodes = Append(
                             [@ EXCEPT ![last.id + 1].children =
                                  InsertChild(@, cur, new_node.id)],
                             new_node),
                         !.remaining_suffix_count = @ - 1]

\* The branch `active_length == 0` of the while body.
RootStep(b) ==
    LET cur == At(b.string, b.i)
        an == At(b.nodes, b.active_node)
    IN IF HasChild(an, cur)
       THEN \* Rule 3 extension
            EndPhase([b EXCEPT !.active_edge = At(b.nodes, an.children[cur]).start,
                               !.active_length = @ + 1])
       ELSE \* Rule 2 extension: a new leaf below active_node
            LET new_node == NewNode(Len(b.nodes), an.id, b.i)
            IN [b EXCEPT !.nodes = Append(
                             [@ EXCEPT ![b.active_node + 1].children =
                                  InsertChild(@, cur, new_node.id)],
                             new_node),
                         !.remaining_suffix_count = @ - 1]

\* Head of `while remaining_suffix_count > 0`.
WhileStep(b) ==
    IF b.remaining_suffix_count = 0
    THEN EndPhase(b)
    ELSE IF b.active_length = 0
         THEN RootStep(b)
         ELSE [b EXCEPT !.pc = "loop", !.next_byte = None]

\* Case (3) of the inner loop: the edge is used up and the node reached has
\* no child under bytes_and_sep[active_edge]; a leaf is created below it and
\* the phase is cut short.
Case3Step(b, node) ==
    LET new_node == NewNode(Len(b.nodes), node.id, b.i)
        nodes1 == Append(
            [b.nodes EXCEPT ![node.id + 1].children =
                 InsertChild(@, At(b.string, b.active_edge), new_node.id)],
            new_node)
        nodes2 == IF b.last_new_node # None
                  THEN [nodes1 EXCEPT ![b.last_new_node + 1].suffix_link = node.id]
                  ELSE nodes1
        link == At(nodes2, node.id).suffix_link
    IN IF b.active_node # 0 /\ link = None
       THEN Panic(b, "suffix_link.unwrap")
       ELSE EndPhase(
              [b EXCEPT !.nodes = nodes2,
                        !.last_new_node = node.id,
                        !.active_node = IF b.active_node # 0 THEN link ELSE @,
                        !.active_edge = IF b.active_node # 0 THEN @ ELSE @ + 1,
                        !.active_length = IF b.active_node # 0 THEN @ ELSE @ - 1,
                        !.remaining_suffix_count = @ - 1])

\* The walk-down branch: active_length is larger than the edge.
WalkDownStep(b, node) ==
    LET k == At(b.string, b.active_edge)
        len == NodeLength(node, b.global_end)
    IN IF ~HasChild(node, k)
       THEN Panic(b, "child.unwrap")
       ELSE [b EXCEPT !.active_node = node.children[k],
                      !.active_length = @ - len - 1,
                      !.active_edge = @ + len + 1]

\* One iteration of the inner `loop` that looks for the next byte.
LoopStep(b) ==
    IF b.active_edge >= Len(b.string)
    THEN Panic(b, "index")
    ELSE
    LET k == At(b.string, b.active_edge)
        an == At(b.nodes, b.active_node)
    IN IF ~HasChild(an, k)
       THEN Panic(b, "child.unwrap")
       ELSE
       LET node == At(b.nodes, an.children[k])
           len == NodeLength(node, b.global_end)
       IN IF len < 0
          THEN Panic(b, "subtract")
          ELSE IF len > b.active_length
          THEN \* (1) the next byte is on the label of the node
               [b EXCEPT !.next_byte = At(b.string, node.start + b.active_length),
                         !.pc = "cmp"]
          ELSE IF len = b.active_length
          THEN IF HasChild(node, k)
               THEN \* (2)
                    [b EXCEPT !.next_byte = k, !.pc = "cmp"]
               ELSE Case3Step(b, node)
          ELSE WalkDownStep(b, node)

\* A split that does not insert the leaf of the current position into the
\* children of the node it splits.
SplitStepOneLeaf(b) ==
    LET nodes_len == Len(b.nodes)
        k == At(b.string, b.active_edge)
        an == At(b.nodes, b.active_node)
    IN IF ~HasChild(an, k)
       THEN Panic(b, "child.unwrap")
       ELSE
       LET node == At(b.nodes, an.children[k])
           new_node == NewNode(nodes_len, node.id, node.start + b.active_length)
           new_node2 == NewNode(nodes_len + 1, node.id, b.i)
       IN IF new_node.start >= Len(b.string)
          THEN Panic(b, "index")
          ELSE
          LET children1 == InsertChild(node.children,
                                       At(b.string, new_node.start), new_node.id)
              children2 == children1
              nodes1 == [b.nodes EXCEPT ![node.id + 1] =
                            [@ EXCEPT !.end = node.start + b.active_length,
                                      !.open = FALSE,
                                      !.children = children2,
                                      !.suffix_link = 0]]
              nodes2 == IF b.last_new_node # None
                        THEN [nodes1 EXCEPT ![b.last_new_node + 1].suffix_link = node.id]
                        ELSE nodes1
              nodes3 == Append(Append(nodes2, new_node), new_node2)
          IN [b EXCEPT !.nodes = nodes3,
                       !.remaining_suffix_count = @ - 1,
                       !.active_length = IF b.active_node = 0 THEN @ - 1 ELSE @,
                       !.active_edge = IF b.active_node = 0 THEN @ + 1 ELSE @,
                       !.active_node = IF b.active_node = 0 THEN @
                                       ELSE At(nodes3, node.id).suffix_link,
                       !.last_new_node = node.id,
                       !.next_byte = None,
                       !.pc = "while"]

\* Rule 2 extension inside an edge: the node below the active point keeps
\* the upper part of the label and gets two new children.
SplitStep(b) ==
    LET nodes_len == Len(b.nodes)
        k == At(b.string, b.active_edge)
        an == At(b.nodes, b.active_node)
    IN IF ~HasChild(an, k)
       THEN Panic(b, "child.unwrap")
       ELSE
       LET node == At(b.nodes, an.children[k])
           new_node == NewNode(nodes_len, node.id, node.start + b.active_length)
           new_node2 == NewNode(nodes_len + 1, node.id, b.i)
       IN IF new_node.start >= Len(b.string)
          THEN Panic(b, "index")
          ELSE
          LET children1 == InsertChild(node.children,
                                       At(b.string, new_node.start), new_node.id)
              children2 == InsertChild(children1,
                                       At(b.string, new_node2.start), new_node2.id)
              nodes1 == [b.nodes EXCEPT ![node.id + 1] =
                            [@ EXCEPT !.end = node.start + b.active_length,
                                      !.open = FALSE,
                                      !.children = children2,
                                      !.suffix_link = 0]]
              nodes2 == IF b.last_new_node # None
                        THEN [nodes1 EXCEPT ![b.last_new_node + 1].suffix_link = node.id]
                        ELSE nodes1
              nodes3 == Append(Append(nodes2, new_node), new_node2)
          IN [b EXCEPT !.nodes = nodes3,
                       !.remaining_suffix_count = @ - 1,
                       !.active_length = IF b.active_node = 0 THEN @ - 1 ELSE @,
                       !.active_edge = IF b.active_node = 0 THEN @ + 1 ELSE @,
                       !.active_node = IF b.active_node = 0 THEN @
                                       ELSE At(nodes3, node.id).suffix_link,
                       !.last_new_node = node.id,
                       !.next_byte = None,
                       !.pc = "while"]

\* After the inner loop found the next byte: compare it with the current one.
CmpStep(b) ==
    IF b.next_byte = At(b.string, b.i)
    THEN \* Rule 3 extension
         EndPhase([b EXCEPT !.active_length = @ + 1])
    ELSE SplitStep(b)

BuildStep(b) ==
    CASE b.pc = "for" -> ForStep(b)
      [] b.pc = "while" -> WhileStep(b)
      [] b.pc = "loop" -> LoopStep(b)
      [] b.pc = "cmp" -> CmpStep(b)
      [] OTHER -> b

BuildEnded(b) == b.pc \in {"done", "panic"}

\* k steps of the builder, k >= 1; a builder that has ended stays as it is.
RECURSIVE RunSteps(_, _)
RunSteps(b, k) ==
    IF BuildEnded(b) THEN b
    ELSE IF k <= 1
    THEN BuildStep(b)
    ELSE LET half == RunSteps(b, k \div 2)
         IN RunSteps(half, k - (k \div 2))

\* Steps of the builder until it has ended, k, 2k, 4k, .. at a time.
RECURSIVE RunFor(_, _)
RunFor(b, k) ==
    IF BuildEnded(b) THEN b
    ELSE LET after == RunSteps(b, k)
         IN RunFor(after, 2 * k)

\* The whole of init_suffix_tree.
RunBuilder(b) == RunFor(b, 1)

(***************************************************************************)
(* The finished tree.                                                      *)
(***************************************************************************)
NoTree == [raw_string |-> <<>>, string |-> <<>>, nodes |-> <<>>, global_end |-> 0]

\* Height of the path from the root to the upper end of the edge into id.
RECURSIVE PathHeight(_, _, _)
PathHeight(nodes, global_end, id) ==
    LET p == At(nodes, id).parent
    IN IF p = None \/ p = 0
       THEN 0
       ELSE PathHeight(nodes, global_end, p) + NodeLength(At(nodes, p), global_end)

\* The nodes a traversal from the root visits.
RECURSIVE Reachable(_, _)
Reachable(nodes, id) ==
    LET p == At(nodes, id).parent
    IN \/ id = 0
       \/ /\ p # None
          /\ \E k \in DOMAIN At(nodes, p).children : At(nodes, p).children[k] = id
          /\ Reachable(nodes, p)

TreeNodeIds(nodes) == {id \in 0..(Len(nodes) - 1) : Reachable(nodes, id)}

\* Post-pass: a traversal from the root carrying the path height h sets
\* suffix_index = start - h on every non-root node it visits.
SetSuffixIndices(nodes, global_end) ==
    [j \in 1..Len(nodes) |->
        IF j - 1 # 0 /\ Reachable(nodes, j - 1)
        THEN [nodes[j] EXCEPT !.suffix_index =
                  nodes[j].start - PathHeight(nodes, global_end, j - 1)]
        ELSE nodes[j]]

\* SuffixTree::new on the bytes s; the result of a builder that ended.
TreeOf(b) ==
    [raw_string |-> SubSeq(b.string, 1, Len(b.string) - 1),
     string |-> b.string,
     nodes |-> SetSuffixIndices(b.nodes, b.global_end),
     global_end |-> b.global_end]

LabelOfNode(t, n) == SubSeq(t.string, n.start + 1, NodeEnd(n, t.global_end))

\* Node::suffix_range: a leaf ends with the separator, which is left out.
SuffixRange(t, n) ==
    [start |-> n.suffix_index,
     end |-> NodeEnd(n, t.global_end) - (IF IsLeaf(n) THEN 1 ELSE 0)]

(***************************************************************************)
(* longest_substring.                                                      *)
(***************************************************************************)
NoRange == [some |-> FALSE, start |-> 0, end |-> 0]
SomeRange(start, end) == [some |-> TRUE, start |-> start, end |-> end]

\* How many leading elements of label equal bytes[pos..].
MatchLength(label, bytes, pos) ==
    Cardinality({m \in 1..Len(label) :
        \A j \in 1..m : pos + j <= Len(bytes) /\ label[j] = bytes[pos + j]})

\* Walk from node cur with pos bytes matched: the last node of the match and
\* the matched length.
RECURSIVE Descend(_, _, _, _)
Descend(t, bytes, cur, pos) ==
    LET n == At(t.nodes, cur)
    IN IF pos >= Len(bytes) \/ ~HasChild(n, At(bytes, pos))
       THEN <<cur, pos>>
       ELSE LET c == At(t.nodes, n.children[At(bytes, pos)])
                label == LabelOfNode(t, c)
                m == MatchLength(label, bytes, pos)
            IN IF m < Len(label) \/ m = 0
               THEN <<c.id, pos + m>>
               ELSE Descend(t, bytes, c.id, pos + m)

LongestSubstring(t, bytes) ==
    IF bytes = <<>> \/ ~HasChild(At(t.nodes, 0), At(bytes, 0))
    THEN NoRange
    ELSE LET r == Descend(t, bytes, 0, 0)
             last_node == At(t.nodes, r[1])
         IN SomeRange(last_node.suffix_index, last_node.suffix_index + r[2])

(***************************************************************************)
(* RelativeLempelZiv: the functions of encode, decode and random_access.   *)
(***************************************************************************)
RECURSIVE Concat(_)
Concat(parts) == IF parts = <<>> THEN <<>> ELSE Head(parts) \o Concat(Tail(parts))

Failed == [ok |-> FALSE, value |-> <<>>]
Returned(v) == [ok |-> TRUE, value |-> v]

\* base_string: the strings at the indices of n (index 0 when n is None)
\* joined, then "ACGTN"; the function returns there, the scan of the
\* strings for further characters below the return is never run.  An index
\* outside the strings panics.
BaseString(strs, idx) ==
    LET chosen == IF idx.some THEN idx.list ELSE <<0>>
    IN IF \E j \in 1..Len(chosen) : chosen[j] >= Len(strs)
       THEN Failed
       ELSE Returned(Concat([j \in 1..Len(chosen) |-> At(strs, chosen[j])]) \o ACGTN)

\* create_suffix_tree: SuffixTree::new on the reference.
CreateSuffixTree(s) == RunBuilder(InitBuilder(s))

\* A conversion that succeeds on every value, as a cast would.
FitsUAlways(v) == v = v

\* U::try_from(usize) succeeds on the values U can hold.
FitsU(v) == 0 <= v /\ v <= UMax

\* A part that stores the last position of the slice instead of the
\* position after it.
EncodePartInclusiveEnd(len, start, end) ==
    [len |-> len, range |-> <<start, end - 1>>]

\* A part whose len is taken after `len += end - start`: the bytes consumed
\* up to and including the part.
EncodePartLenAfter(len, start, end) ==
    [len |-> len + (end - start), range |-> <<start, end>>]

\* A part whose range holds the two positions in the other order.
EncodePartEndFirst(len, start, end) == [len |-> len, range |-> <<end, start>>]

EncodePart(len, start, end) == [len |-> len, range |-> <<start, end>>]

\* The while loop of the worker closure of encode_parts from position index
\* on.  status is "ok" when the loop ends, "panic" when an unwrap or the
\* expect fails, "diverge" when a factor of length 0 leaves index in place.
RECURSIVE FactorizeFrom(_, _, _, _, _)
FactorizeFrom(t, base_bytes, index, len, encoded_string_list) ==
    IF index >= Len(base_bytes)
    THEN [status |-> "ok", list |-> encoded_string_list]
    ELSE IF ~FitsU(len)
    THEN [status |-> "panic", list |-> encoded_string_list]
    ELSE
    LET r == LongestSubstring(t, SubSeq(base_bytes, index + 1, Len(base_bytes)))
    IN IF ~r.some
       THEN [status |-> "panic", list |-> encoded_string_list]
       ELSE IF r.end < r.start \/ ~FitsU(r.start) \/ ~FitsU(r.end)
       THEN [status |-> "panic", list |-> encoded_string_list]
       ELSE IF r.end = r.start
       THEN [status |-> "diverge", list |-> encoded_string_list]
       ELSE FactorizeFrom(t, base_bytes, index + (r.end - r.start),
                          len + (r.end - r.start),
                          Append(encoded_string_list, EncodePart(len, r.start, r.end)))

\* A loop that starts at the second byte: `let mut index = 1`.
FactorizeFromSecond(t, s) == FactorizeFrom(t, s, 1, 0, <<>>)

Factorize(t, s) == FactorizeFrom(t, s, 0, 0, <<>>)

\* The payload of the panic of `.expect(..)` in the task of input i at a
\* byte for which longest_substring returned None: the message alone.
ExpectPayload(i, byte) == "Reference string did not contain substring"

\* A store that takes the first slot still empty, as a push in order of
\* completion would, instead of slot i.
StoreListInArrivalOrder(lst, i, encoded_string_list) ==
    LET free == {j \in 1..Len(lst) : lst[j] = <<>>}
        slot == IF free = {} THEN i + 1
                ELSE CHOOSE j \in free : \A k \in free : j <= k
    IN [lst EXCEPT ![slot] = encoded_string_list]

\* `list[i] = encoded_string_list` under the lock.
StoreList(lst, i, encoded_string_list) ==
    [lst EXCEPT ![i + 1] = encoded_string_list]

\* The slice base_data[start..end] of one part, Failed when it is not a
\* range of base_data.
PartBytes(base_data, part) ==
    LET start == part.range[1]
        end == part.range[2]
    IN IF start > end \/ end > Len(base_data)
       THEN Failed
       ELSE Returned(SubSeq(base_data, start + 1, end))

\* String::from_utf8 on bytes below 128, the only ones the strings of this
\* model hold: such a byte sequence is valid UTF-8.
FromUtf8(bytes) ==
    IF \A j \in 1..Len(bytes) : bytes[j] < 128 THEN Returned(bytes) ELSE Failed

DecodeString(base_data, encoded_string) ==
    IF \E j \in 1..Len(encoded_string) : ~PartBytes(base_data, encoded_string[j]).ok
    THEN Failed
    ELSE FromUtf8(Concat([j \in 1..Len(encoded_string) |->
                              PartBytes(base_data, encoded_string[j]).value]))

\* internal_decode.
InternalDecode(a) ==
    IF \E j \in 1..Len(a.data) : ~DecodeString(a.base_data, a.data[j]).ok
    THEN Failed
    ELSE Returned([j \in 1..Len(a.data) |-> DecodeString(a.base_data, a.data[j]).value])

\* A search that never reports an exact match: always Err(position where
\* x would go).
BinarySearchErrOnly(encoded_string, x) ==
    [found |-> FALSE,
     index |-> Cardinality({j \in 1..Len(encoded_string) : encoded_string[j].len < x})]

\* slice::binary_search_by on the len fields, which the list holds in
\* increasing order: Ok(position of x) or Err(position where x would go).
BinarySearchByLen(encoded_string, x) ==
    IF \E j \in 1..Len(encoded_string) : encoded_string[j].len = x
    THEN [found |-> TRUE,
          index |-> (CHOOSE j \in 1..Len(encoded_string) : encoded_string[j].len = x) - 1]
    ELSE [found |-> FALSE,
          index |-> Cardinality({j \in 1..Len(encoded_string) : encoded_string[j].len < x})]

\* internal_random_access: the x'th byte of the i'th string.
InternalRandomAccess(a, i, x) ==
    IF i >= Len(a.data)
    THEN Failed
    ELSE
    LET encoded_string == At(a.data, i)
        matching_element == BinarySearchByLen(encoded_string, x)
        index == IF matching_element.found
                 THEN matching_element.index
                 ELSE matching_element.index - 1
    IN IF index < 0 \/ index >= Len(encoded_string)
       THEN Failed
       ELSE LET encode_part == At(encoded_string, index)
                pos == encode_part.range[1] + (x - encode_part.len)
            IN IF x < encode_part.len \/ pos >= Len(a.base_data)
               THEN Failed
               ELSE Returned(At(a.base_data, pos))

(***************************************************************************)
(* Reference merge: the functions of encode_by_reference_merge.            *)
(***************************************************************************)
\* mem::size_of::<EncodePart<U>>() for U = u8: three fields of one byte.
PartSize == 3

RECURSIVE SumOf(_)
SumOf(xs) == IF xs = <<>> THEN 0 ELSE Head(xs) + SumOf(Tail(xs))

\* internal_memory_string_list: the byte lengths of the strings added up.
InternalMemoryStringList(v) == SumOf([j \in 1..Len(v) |-> Len(v[j])])

\* internal_memory_single_list on an encoded string: capacity times the size
\* of a part; shrink_to_fit has brought the capacity down to the length.
InternalMemorySingleList(v) == Len(v) * PartSize

InternalMemoryDoubleList(vv) ==
    SumOf([j \in 1..Len(vv) |-> InternalMemorySingleList(vv[j])])

\* internal_memory_footprint: the bytes of base_data and of data.
InternalMemoryFootprint(a) ==
    <<Len(a.base_data), InternalMemoryDoubleList(a.data)>>

\* An f64 quotient of two unsigned integers, kept as the pair it is made of.
Rate(num, den) == [num |-> num, den |-> den]

\* 0.0 / 0.0
IsNaN(r) == r.num = 0 /\ r.den = 0

\* `a < b` on f64: x / 0 with x > 0 is infinite, NaN is below nothing.
RateLess(a, b) ==
    /\ ~IsNaN(a) /\ ~IsNaN(b)
    /\ IF b.den = 0 THEN a.den > 0
       ELSE a.den > 0 /\ a.num * b.den < b.num * a.den

\* Analysis::new and Analysis::compressed_rate.
Analysis(len, c_size, r_size, name) ==
    [len |-> len, c_size |-> c_size, r_size |-> r_size, name |-> name]
CompressedRate(a) == Rate(a.c_size, a.r_size)

\* A comparator that puts the smallest rate first.
WorseThanAscending(x, y) == RateLess(CompressedRate(x), CompressedRate(y))

\* The comparator of AnalysisResult::new, b.rate.partial_cmp(a.rate): x goes
\* before y when the rate of x is the larger one.
WorseThan(x, y) == RateLess(CompressedRate(y), CompressedRate(x))

\* Vec::sort_by, a stable sort: x is put after every element that does not
\* have to come behind it.
RECURSIVE InsertSorted(_, _)
InsertSorted(sorted, x) ==
    IF sorted = <<>> THEN <<x>>
    ELSE IF WorseThan(x, Head(sorted))
         THEN <<x>> \o sorted
         ELSE <<Head(sorted)>> \o InsertSorted(Tail(sorted), x)

RECURSIVE SortBy(_)
SortBy(xs) ==
    IF xs = <<>> THEN <<>>
    ELSE InsertSorted(SortBy(SubSeq(xs, 1, Len(xs) - 1)), xs[Len(xs)])

\* AnalysisResult::new: partial_cmp is None on a NaN and the unwrap panics;
\* a list of fewer than two elements is never compared.
AnalysisResultNew(xs) ==
    IF Len(xs) >= 2 /\ \E j \in 1..Len(xs) : IsNaN(CompressedRate(xs[j]))
    THEN Failed
    ELSE Returned(SortBy(xs))

WorstReferenceString(sorted) == sorted[1].name

\* base_string_by_name: the strings whose name is among names, in input
\* order, joined, then "ACGTN".
BaseStringByName(pairs, names) ==
    Concat([j \in 1..Len(pairs) |->
               IF \E k \in 1..Len(names) : names[k] = pairs[j].name
               THEN pairs[j].string ELSE <<>>]) \o ACGTN

\* encode_parts on the tree of a builder that ended without a panic; the
\* factor lists do not depend on the order of the workers.
EncodeParts(raw_strings, b) ==
    LET t == TreeOf(b)
        results == [j \in 1..Len(raw_strings) |-> Factorize(t, raw_strings[j])]
    IN IF \E j \in 1..Len(results) : results[j].status = "diverge"
       THEN [status |-> "diverge", value |-> <<>>]
       ELSE IF \E j \in 1..Len(results) : results[j].status = "panic"
       THEN [status |-> "panic", value |-> <<>>]
       ELSE [status |-> "ok",
             value |-> [base_data |-> t.raw_string,
                        data |-> [j \in 1..Len(results) |-> results[j].list]]]

\* The block of one iteration of the merge loop: base_string_by_name,
\* create_suffix_tree, encode_parts.
EncodeWithNames(pairs, names) ==
    LET b == CreateSuffixTree(BaseStringByName(pairs, names))
    IN IF b.pc # "done"
       THEN [status |-> "panic", value |-> <<>>]
       ELSE EncodeParts([j \in 1..Len(pairs) |-> pairs[j].string], b)

\* The a_vec of one iteration: one Analysis per input.
AnalysisVec(pairs, rlz) ==
    [j \in 1..Len(pairs) |->
        Analysis(Len(rlz.data[j]), InternalMemorySingleList(rlz.data[j]),
                 Len(pairs[j].string), pairs[j].name)]

(***************************************************************************)
(* State.                                                                  *)
(***************************************************************************)
VARIABLES
    builder,   \* the locals of init_suffix_tree while it runs
    tree,      \* the SuffixTree returned by SuffixTree::new, NoTree before
    query,     \* the byte slice of the last longest_substring call
    found,     \* its result
    strings,   \* the strings handed to encode
    n,         \* the index argument of encode
    pc,        \* how far encode has come
    failure,   \* the function that panicked, "none" otherwise
    reference, \* the string returned by base_string
    wpc,       \* per worker of encode_parts: its position in the closure
    local,     \* per worker: its encoded_string_list
    holder,    \* the worker that holds the mutex, None when it is free
    list,      \* the vector inside the mutex
    writes,    \* the stores into the vector, in the order they happened
    archive,   \* the RelativeLempelZiv returned by encode
    decoded,   \* the result of decode
    access,    \* the last random_access call and its result
    merge      \* the locals of encode_by_reference_merge

treeVars == <<builder, tree, query, found>>
pipeVars == <<strings, n, pc, failure, reference, wpc, local, holder, list,
              writes, archive, decoded, access>>
vars == <<builder, tree, query, found, strings, n, pc, failure, reference, wpc,
          local, holder, list, writes, archive, decoded, access, merge>>

NoArchive == [base_data |-> <<>>, data |-> <<>>]
NotDecoded == [done |-> FALSE, value |-> <<>>]
NoAccess == [called |-> FALSE, i |-> 0, x |-> 0, ok |-> FALSE, byte |-> 0]
NoRlz == [some |-> FALSE, value |-> NoArchive]
SomeRlz(a) == [some |-> TRUE, value |-> a]

\* The locals of encode_by_reference_merge(pairs) before its first
\* statement; best_names keeps the reference_names best_rlz was built from.
InitMergeState(pairs) ==
    [strings |-> pairs,
     reference_names |-> <<>>,
     best_compression_rate |-> Rate(1, 1),
     i |-> 0,
     best_rlz |-> NoRlz,
     best_names |-> <<>>,
     rlz |-> NoArchive,
     analysis_result |-> <<>>,
     compressed_rate |-> Rate(0, 1),
     pc |-> "start",
     panic |-> "none"]

\* encode_by_reference_merge is not called.
NoMerge == [InitMergeState(<<>>) EXCEPT !.pc = "idle"]

\* The pipeline variables while only the tree is exercised.
PipeIdle ==
    /\ strings = <<>>
    /\ n = NoIndices
    /\ pc = "idle"
    /\ failure = "none"
    /\ reference = <<>>
    /\ wpc = <<>>
    /\ local = <<>>
    /\ holder = None
    /\ list = <<>>
    /\ writes = <<>>
    /\ archive = NoArchive
    /\ decoded = NotDecoded
    /\ access = NoAccess

(***************************************************************************)
(* SpecTree: the builder step by step, then queries.                       *)
(***************************************************************************)
InitTree ==
    /\ \E s \in TreeTexts : builder = InitBuilder(s)
    /\ tree = NoTree
    /\ query = <<>>
    /\ found = NoRange
    /\ PipeIdle
    /\ merge = NoMerge

Advance(from, to) ==
    /\ builder.pc = from
    /\ BuildStep(builder).pc = to
    /\ builder' = BuildStep(builder)
    /\ UNCHANGED <<tree, query, found>>
    /\ UNCHANGED pipeVars
    /\ UNCHANGED merge

\* A new position of the text: global_end and the pending count grow.
BeginPhase == Advance("for", "while")

\* The while loop finds no pending suffix and the phase ends.
PhaseDrained ==
    /\ builder.remaining_suffix_count = 0
    /\ Advance("while", "for")

\* active_length == 0 and the active node has the byte: rule 3.
Rule3FromRoot ==
    /\ builder.remaining_suffix_count > 0
    /\ Advance("while", "for")

\* active_length == 0 and the byte is new: a leaf below the active node.
LeafFromActiveNode ==
    /\ builder.active_length = 0
    /\ Advance("while", "while")

EnterLoop == Advance("while", "loop")

\* Cases (1) and (2): the next byte is found.
FoundNextByte == Advance("loop", "cmp")

\* Case (3).
LeafBelowNode == Advance("loop", "for")

WalkDown == Advance("loop", "loop")

Rule3OnEdge == Advance("cmp", "for")

Split == Advance("cmp", "while")

\* An unwrap of None or an index outside the text ends the construction.
BuilderPanics ==
    /\ builder.pc \in {"loop", "cmp"}
    /\ BuildStep(builder).pc = "panic"
    /\ builder' = BuildStep(builder)
    /\ UNCHANGED <<tree, query, found>>
    /\ UNCHANGED pipeVars
    /\ UNCHANGED merge

\* The for loop is over: the tree is returned.
FinishBuild ==
    /\ builder.pc = "for"
    /\ BuildStep(builder).pc = "done"
    /\ builder' = BuildStep(builder)
    /\ tree' = TreeOf(builder')
    /\ UNCHANGED <<query, found>>
    /\ UNCHANGED pipeVars
    /\ UNCHANGED merge

QueryTree ==
    /\ builder.pc = "done"
    /\ \E bytes \in Queries :
          /\ query' = bytes
          /\ found' = LongestSubstring(tree, bytes)
    /\ UNCHANGED <<builder, tree>>
    /\ UNCHANGED pipeVars
    /\ UNCHANGED merge

NextTree ==
    \/ BeginPhase
    \/ PhaseDrained
    \/ Rule3FromRoot
    \/ LeafFromActiveNode
    \/ EnterLoop
    \/ FoundNextByte
    \/ LeafBelowNode
    \/ WalkDown
    \/ Rule3OnEdge
    \/ Split
    \/ BuilderPanics
    \/ FinishBuild
    \/ QueryTree

SpecTree == InitTree /\ [][NextTree]_vars

(***************************************************************************)
(* Spec: encode, then decode and random_access on the archive.             *)
(***************************************************************************)
Workers == 0..(Len(strings) - 1)

Init ==
    /\ builder = InitBuilder(<<>>)
    /\ tree = NoTree
    /\ query = <<>>
    /\ found = NoRange
    /\ strings \in Inputs
    /\ n \in IndexChoices
    /\ pc = "start"
    /\ failure = "none"
    /\ reference = <<>>
    /\ wpc = <<>>
    /\ local = <<>>
    /\ holder = None
    /\ list = <<>>
    /\ writes = <<>>
    /\ archive = NoArchive
    /\ decoded = NotDecoded
    /\ access = NoAccess
    /\ merge = NoMerge

\* encode: `let base_string = base_string(&strings, n);`
ChooseBaseString ==
    /\ pc = "start"
    /\ LET r == BaseString(strings, n)
       IN IF r.ok
          THEN /\ reference' = r.value
               /\ pc' = "based"
               /\ UNCHANGED failure
          ELSE /\ pc' = "panic"
               /\ failure' = "base_string"
               /\ UNCHANGED reference
    /\ UNCHANGED <<builder, tree, query, found, strings, n, wpc, local, holder,
                   list, writes, archive, decoded, access>>
    /\ UNCHANGED merge

\* encode: `let st = create_suffix_tree(base_string);`
BuildSuffixTree ==
    /\ pc = "based"
    /\ builder' = CreateSuffixTree(reference)
    /\ IF builder'.pc = "done"
       THEN /\ tree' = TreeOf(builder')
            /\ pc' = "built"
            /\ UNCHANGED failure
       ELSE /\ pc' = "panic"
            /\ failure' = "create_suffix_tree"
            /\ UNCHANGED tree
    /\ UNCHANGED <<query, found, strings, n, reference, wpc, local, holder,
                   list, writes, archive, decoded, access>>
    /\ UNCHANGED merge

\* encode_parts up to par_iter: one empty vector per string inside the
\* mutex, one task per string.
StartEncodeParts ==
    /\ pc = "built"
    /\ pc' = "encoding"
    /\ list' = [j \in 1..Len(strings) |-> <<>>]
    /\ local' = [j \in 1..Len(strings) |-> <<>>]
    /\ wpc' = [j \in 1..Len(strings) |-> "factorize"]
    /\ UNCHANGED <<builder, tree, query, found, strings, n, failure, reference,
                   holder, writes, archive, decoded, access>>
    /\ UNCHANGED merge

\* The task of string i runs its while loop.
WorkerFactorize(i) ==
    /\ pc = "encoding"
    /\ At(wpc, i) = "factorize"
    /\ LET r == Factorize(tree, At(strings, i))
       IN /\ r.status # "diverge"
          /\ IF r.status = "ok"
             THEN /\ local' = [local EXCEPT ![i + 1] = r.list]
                  /\ wpc' = [wpc EXCEPT ![i + 1] = "lock"]
             ELSE /\ wpc' = [wpc EXCEPT ![i + 1] = "panicked"]
                  /\ UNCHANGED local
    /\ UNCHANGED <<builder, tree, query, found, strings, n, pc, failure,
                   reference, holder, list, writes, archive, decoded, access>>
    /\ UNCHANGED merge

\* A lock that is handed out while another task holds it.
WorkerLockHeld(i) ==
    /\ pc = "encoding"
    /\ At(wpc, i) = "lock"
    /\ holder' = i
    /\ wpc' = [wpc EXCEPT ![i + 1] = "store"]
    /\ UNCHANGED <<builder, tree, query, found, strings, n, pc, failure,
                   reference, local, list, writes, archive, decoded, access>>
    /\ UNCHANGED merge

\* `let mut list = data.lock().unwrap();`
WorkerLock(i) ==
    /\ pc = "encoding"
    /\ At(wpc, i) = "lock"
    /\ holder = None
    /\ holder' = i
    /\ wpc' = [wpc EXCEPT ![i + 1] = "store"]
    /\ UNCHANGED <<builder, tree, query, found, strings, n, pc, failure,
                   reference, local, list, writes, archive, decoded, access>>
    /\ UNCHANGED merge

\* `list[i] = encoded_string_list;` and the end of the closure, where the
\* guard is dropped.
WorkerStore(i) ==
    /\ pc = "encoding"
    /\ At(wpc, i) = "store"
    /\ holder = i
    /\ list' = StoreList(list, i, At(local, i))
    /\ writes' = Append(writes, i)
    /\ holder' = None
    /\ wpc' = [wpc EXCEPT ![i + 1] = "done"]
    /\ UNCHANGED <<builder, tree, query, found, strings, n, pc, failure,
                   reference, local, archive, decoded, access>>
    /\ UNCHANGED merge

\* A join that returns the archive whether or not a task panicked.
JoinWorkersIgnoringPanics ==
    /\ pc = "encoding"
    /\ \A i \in Workers : At(wpc, i) \in {"done", "panicked"}
    /\ pc' = "encoded"
    /\ archive' = [base_data |-> tree.raw_string, data |-> list]
    /\ UNCHANGED failure
    /\ UNCHANGED <<builder, tree, query, found, strings, n, reference, wpc,
                   local, holder, list, writes, decoded, access>>
    /\ UNCHANGED merge

\* for_each returns when every task has ended; a panic of a task is
\* propagated, otherwise encode_parts returns the archive.
JoinWorkers ==
    /\ pc = "encoding"
    /\ \A i \in Workers : At(wpc, i) \in {"done", "panicked"}
    /\ IF \E i \in Workers : At(wpc, i) = "panicked"
       THEN /\ pc' = "panic"
            /\ failure' = "encode_parts"
            /\ UNCHANGED archive
       ELSE /\ pc' = "encoded"
            /\ archive' = [base_data |-> tree.raw_string, data |-> list]
            /\ UNCHANGED failure
    /\ UNCHANGED <<builder, tree, query, found, strings, n, reference, wpc,
                   local, holder, list, writes, decoded, access>>
    /\ UNCHANGED merge

\* RelativeLempelZiv::decode on the archive.
Decode ==
    /\ pc = "encoded"
    /\ ~decoded.done
    /\ LET r == InternalDecode(archive)
       IN IF r.ok
          THEN /\ decoded' = [done |-> TRUE, value |-> r.value]
               /\ UNCHANGED <<pc, failure>>
          ELSE /\ pc' = "panic"
               /\ failure' = "decode"
               /\ UNCHANGED decoded
    /\ UNCHANGED <<builder, tree, query, found, strings, n, reference, wpc,
                   local, holder, list, writes, archive, access>>
    /\ UNCHANGED merge

\* RelativeLempelZiv::random_access(i, x) on the archive; one call is
\* followed, the archive is the same for every later one.
RandomAccess(i, x) ==
    /\ pc = "encoded"
    /\ ~access.called
    /\ LET r == InternalRandomAccess(archive, i, x)
       IN access' = [called |-> TRUE, i |-> i, x |-> x, ok |-> r.ok,
                     byte |-> IF r.ok THEN r.value ELSE 0]
    /\ UNCHANGED <<builder, tree, query, found, strings, n, pc, failure,
                   reference, wpc, local, holder, list, writes, archive, decoded>>
    /\ UNCHANGED merge

Next ==
    \/ ChooseBaseString
    \/ BuildSuffixTree
    \/ StartEncodeParts
    \/ \E i \in Workers : WorkerFactorize(i)
    \/ \E i \in Workers : WorkerLock(i)
    \/ \E i \in Workers : WorkerStore(i)
    \/ JoinWorkers
    \/ Decode
    \/ \E i \in 0..Len(strings) :
          \E x \in 0..(IF i < Len(strings) THEN Len(At(strings, i)) ELSE 0) :
              RandomAccess(i, x)

Spec == Init /\ [][Next]_vars

(***************************************************************************)
(* SpecWide: encode(X, None) on strings at the limits of the type U.       *)
(***************************************************************************)
InitWide ==
    /\ builder = InitBuilder(<<>>)
    /\ tree = NoTree
    /\ query = <<>>
    /\ found = NoRange
    /\ strings \in WideInputs
    /\ n = NoIndices
    /\ pc = "start"
    /\ failure = "none"
    /\ reference = <<>>
    /\ wpc = <<>>
    /\ local = <<>>
    /\ holder = None
    /\ list = <<>>
    /\ writes = <<>>
    /\ archive = NoArchive
    /\ decoded = NotDecoded
    /\ access = NoAccess
    /\ merge = NoMerge

SpecWide == InitWide /\ [][Next]_vars

(***************************************************************************)
(* SpecMerge: encode_reference_merge, one block of the loop at a time.     *)
(***************************************************************************)
InitMerge ==
    /\ builder = InitBuilder(<<>>)
    /\ tree = NoTree
    /\ query = <<>>
    /\ found = NoRange
    /\ PipeIdle
    /\ \E pairs \in MergeInputs : merge = InitMergeState(pairs)

MergeFrame ==
    /\ UNCHANGED treeVars
    /\ UNCHANGED pipeVars

\* `strings.choose(&mut rand::thread_rng()).unwrap()`: any element of the
\* list, None on an empty list; its name is the first reference name.
ChooseInitialElement ==
    /\ merge.pc = "start"
    /\ IF merge.strings = <<>>
       THEN merge' = [merge EXCEPT !.pc = "panic", !.panic = "choose.unwrap"]
       ELSE \E j \in 1..Len(merge.strings) :
               merge' = [merge EXCEPT !.reference_names = <<merge.strings[j].name>>,
                                      !.pc = "loop"]
    /\ MergeFrame

\* The head of the loop: i += 1 and the block that builds the archive of
\* the current reference names.
MergeEncode ==
    /\ merge.pc = "loop"
    /\ LET r == EncodeWithNames(merge.strings, merge.reference_names)
       IN merge' =
            IF r.status = "ok"
            THEN [merge EXCEPT !.i = @ + 1, !.rlz = r.value, !.pc = "encoded"]
            ELSE IF r.status = "panic"
            THEN [merge EXCEPT !.i = @ + 1, !.pc = "panic", !.panic = "encode"]
            ELSE [merge EXCEPT !.i = @ + 1, !.pc = "stuck"]
    /\ MergeFrame

\* The analysis of the iteration: a_vec, AnalysisResult::new,
\* memory_footprint and the overall rate.
MergeAnalyse ==
    /\ merge.pc = "encoded"
    /\ LET a_vec == AnalysisVec(merge.strings, merge.rlz)
           analysis_result == AnalysisResultNew(a_vec)
           d == InternalMemoryFootprint(merge.rlz)
           total_size == InternalMemoryStringList(
                             [j \in 1..Len(merge.strings) |-> merge.strings[j].string])
       IN merge' =
            IF ~analysis_result.ok
            THEN [merge EXCEPT !.pc = "panic", !.panic = "partial_cmp.unwrap"]
            ELSE [merge EXCEPT !.analysis_result = analysis_result.value,
                               !.compressed_rate = Rate(d[1] + d[2], total_size),
                               !.pc = "analysed"]
    /\ MergeFrame

\* A condition that also takes a rate equal to the best one.
ImprovesOrEqual(rate, best) ==
    /\ ~IsNaN(rate)
    /\ rate.den > 0
    /\ rate.num * best.den <= best.num * rate.den

\* `compressed_rate < best_compression_rate`
Improves(rate, best) == RateLess(rate, best)

\* The iteration is accepted: its rate is the best one, the worst input is
\* added to the reference names, its archive is kept.
MergeAccept ==
    /\ merge.pc = "analysed"
    /\ Improves(merge.compressed_rate, merge.best_compression_rate)
    /\ merge.i <= Len(merge.strings) + 2  \* keeps the counter i finite
    /\ merge' = [merge EXCEPT
                    !.best_compression_rate = merge.compressed_rate,
                    !.reference_names =
                        Append(@, WorstReferenceString(merge.analysis_result)),
                    !.best_rlz = SomeRlz(merge.rlz),
                    !.best_names = merge.reference_names,
                    !.pc = "loop"]
    /\ MergeFrame

\* The iteration is not better: best_rlz is returned, the expect panics
\* when there is none.
MergeReturn ==
    /\ merge.pc = "analysed"
    /\ ~Improves(merge.compressed_rate, merge.best_compression_rate)
    /\ merge' = IF merge.best_rlz.some
                THEN [merge EXCEPT !.pc = "returned"]
                ELSE [merge EXCEPT !.pc = "panic", !.panic = "best_rlz.expect"]
    /\ MergeFrame

NextMerge ==
    \/ ChooseInitialElement
    \/ MergeEncode
    \/ MergeAnalyse
    \/ MergeAccept
    \/ MergeReturn

SpecMerge == InitMerge /\ [][NextMerge]_vars

(***************************************************************************)
(* Properties of the suffix tree and of longest_substring.                 *)
(***************************************************************************)
BuiltTree == builder.pc = "done"

\* A query has been answered on the finished tree.
Queried == BuiltTree /\ query # <<>>

BytesOf(s) == {s[j] : j \in 1..Len(s)}

\* w occurs in s as a substring.
Occurs(s, w) == \E j \in 0..(Len(s) - Len(w)) : SubSeq(s, j + 1, j + Len(w)) = w

Prefix(s, k) == SubSeq(s, 1, k)

Leaves(t) == {id \in TreeNodeIds(t.nodes) : IsLeaf(At(t.nodes, id))}

\* The node at which the path from cur that spells word[pos..] edge by edge
\* ends, None when no such path exists.
RECURSIVE Spell(_, _, _, _)
Spell(t, word, cur, pos) ==
    LET node == At(t.nodes, cur)
    IN IF pos = Len(word)
       THEN cur
       ELSE IF ~HasChild(node, At(word, pos))
       THEN None
       ELSE LET c == At(t.nodes, node.children[At(word, pos)])
                label == LabelOfNode(t, c)
            IN IF /\ Len(label) > 0
                  /\ pos + Len(label) <= Len(word)
                  /\ SubSeq(word, pos + 1, pos + Len(label)) = label
               THEN Spell(t, word, c.id, pos + Len(label))
               ELSE None

\* The suffix of the separator-ended text that starts at position k.
SuffixFrom(t, k) == SubSeq(t.string, k + 1, Len(t.string))

\* C5: when the first byte of b occurs in R, longest_substring(b) is Some
\* (start, end), R[start..end] is a prefix of b, and no longer prefix of b
\* occurs in R; over "banana", "ban" gives (0, 3) and "anana" gives (1, 6).
C5_LongestPrefix ==
    (Queried /\ query[1] \in BytesOf(tree.raw_string)) =>
        /\ found.some
        /\ 0 <= found.start /\ found.start < found.end
        /\ found.end <= Len(tree.raw_string)
        /\ found.end - found.start <= Len(query)
        /\ SubSeq(tree.raw_string, found.start + 1, found.end)
              = Prefix(query, found.end - found.start)
        /\ \A m \in 1..Len(query) :
              Occurs(tree.raw_string, Prefix(query, m)) => m <= found.end - found.start
        /\ (tree.raw_string = Banana /\ query = <<98, 97, 110>>)
              => found = SomeRange(0, 3)
        /\ (tree.raw_string = Banana /\ query = <<97, 110, 97, 110, 97>>)
              => found = SomeRange(1, 6)

\* C6: longest_substring(b) is None exactly when the first byte of b does
\* not occur in R, which is when the root has no child keyed by it; a Some
\* result has end > start.
C6_NoneIffAbsent ==
    Queried =>
        /\ ~found.some <=> query[1] \notin BytesOf(tree.raw_string)
        /\ ~found.some <=> ~HasChild(At(tree.nodes, 0), query[1])
        /\ found.some => found.end > found.start

\* C7: over "mississippi", longest_substring("issi") is (1, 5) and
\* longest_substring("issip") is (4, 9): the range starts at the suffix index
\* of the last node of the match and has the matched length.
C7_Mississippi ==
    (builder.string = BytesAndSep(Mississippi) /\ BuildEnded(builder)) =>
        /\ BuiltTree
        /\ LongestSubstring(tree, <<105, 115, 115, 105>>) = SomeRange(1, 5)
        /\ LongestSubstring(tree, <<105, 115, 115, 105, 112>>) = SomeRange(4, 9)

\* C8: the tree returned for S has exactly |S| + 1 leaves.
C8_LeafCount ==
    BuiltTree => Cardinality(Leaves(tree)) = Len(tree.raw_string) + 1

\* C9: in the returned tree every node that is neither the root nor a leaf
\* has at least two children.
C9_InternalBranching ==
    BuiltTree =>
        \A j \in 1..Len(tree.nodes) :
            IsInternalNode(tree.nodes[j])
                => Cardinality(DOMAIN tree.nodes[j].children) >= 2

\* C10: for every suffix of S the path from the root that spells it and
\* then the separator ends at a leaf whose suffix_index is the start of the
\* suffix; distinct suffixes end at distinct leaves.
C10_SuffixPaths ==
    BuiltTree =>
        /\ \A k \in 0..Len(tree.raw_string) :
              LET e == Spell(tree, SuffixFrom(tree, k), 0, 0)
              IN /\ e # None
                 /\ IsLeaf(At(tree.nodes, e))
                 /\ At(tree.nodes, e).suffix_index = k
        /\ \A k1, k2 \in 0..Len(tree.raw_string) :
              k1 # k2 => Spell(tree, SuffixFrom(tree, k1), 0, 0)
                           # Spell(tree, SuffixFrom(tree, k2), 0, 0)

\* The label elements spelled by the path from the root to node id.
RECURSIVE PathLabel(_, _)
PathLabel(t, id) ==
    LET node == At(t.nodes, id)
    IN IF node.parent = None
       THEN <<>>
       ELSE PathLabel(t, node.parent) \o LabelOfNode(t, node)

\* The internal non-root nodes of the returned tree.
InternalNodes(t) == {id \in TreeNodeIds(t.nodes) : IsInternalNode(At(t.nodes, id))}

\* C11: after construction every internal non-root node v, whose path spells
\* c followed by alpha, has its suffix link set, and the link points to the
\* node whose path spells alpha (the root when alpha is empty).
C11_SuffixLinks ==
    BuiltTree =>
        \A v \in InternalNodes(tree) :
            LET link == At(tree.nodes, v).suffix_link
                label == PathLabel(tree, v)
            IN /\ link # None
               /\ Reachable(tree.nodes, link)
               /\ Len(label) >= 1
               /\ PathLabel(tree, link) = Tail(label)
               /\ (Len(label) = 1 => link = 0)

\* C12: for every byte sequence the construction runs to completion and
\* returns a tree: no child lookup, suffix link, index or subtraction fails.
C12_Infallible ==
    /\ builder.pc # "panic"
    /\ builder.panic = "none"

\* C13: SuffixTree::new("") returns a tree of exactly two nodes: the root
\* (id 0) and one leaf, the child of the root under the sentinel key, whose
\* edge label is the sentinel alone.
C13_EmptyText ==
    (BuiltTree /\ tree.raw_string = <<>>) =>
        /\ Len(tree.nodes) = 2
        /\ At(tree.nodes, 0).id = 0
        /\ IsRoot(At(tree.nodes, 0))
        /\ DOMAIN At(tree.nodes, 0).children = {Sep}
        /\ At(tree.nodes, 0).children[Sep] = 1
        /\ At(tree.nodes, 1).id = 1
        /\ At(tree.nodes, 1).parent = 0
        /\ IsLeaf(At(tree.nodes, 1))
        /\ LabelOfNode(tree, At(tree.nodes, 1)) = <<Sep>>

\* The tree of the empty text has been returned.
C13_Witness ==
    /\ BuiltTree
    /\ tree.raw_string = <<>>
    /\ tree.string = <<Sep>>
    /\ Len(tree.nodes) > 1

\* The label elements that key a child of some node of the arena.
LabelElements ==
    UNION {DOMAIN builder.nodes[j].children : j \in 1..Len(builder.nodes)}

\* C14: the ordering on label elements is total, the separator is strictly
\* less than every byte, bytes compare by value, cmp is Equal exactly when
\* eq holds; so an ordered iteration over the children of a node visits the
\* separator child first.
C14_SepFirst ==
    /\ \A x, y \in LabelElements :
          /\ Cmp(x, y) = "Equal" <=> Eq(x, y)
          /\ Cmp(x, y) = "Less" <=> Cmp(y, x) = "Greater"
          /\ (x # Sep /\ y # Sep) => (Cmp(x, y) = "Less" <=> x < y)
          /\ (x = Sep /\ y # Sep) => Cmp(x, y) = "Less"
          /\ LabelDataCmp(x, y) = "Equal" <=> Eq(x, y)
          /\ (x = Sep /\ y # Sep) => LabelDataCmp(x, y) = "Less"
    /\ \A x, y, z \in LabelElements :
          (Cmp(x, y) = "Less" /\ Cmp(y, z) = "Less") => Cmp(x, z) = "Less"
    /\ \A j \in 1..Len(builder.nodes) :
          HasChild(builder.nodes[j], Sep) => FirstChildKey(builder.nodes[j]) = Sep

\* The label of node c while the builder runs: a leaf ends at global_end.
LabelWhileBuilding(b, c) == SubSeq(b.string, c.start + 1, NodeEnd(c, b.global_end))

\* word[pos..] is spelled by a path that leaves node cur along child edges;
\* the path may end inside the label of an edge.
RECURSIVE SpelledFrom(_, _, _, _)
SpelledFrom(b, word, cur, pos) ==
    LET node == At(b.nodes, cur)
    IN IF pos >= Len(word)
       THEN TRUE
       ELSE IF ~HasChild(node, At(word, pos))
       THEN FALSE
       ELSE LET c == At(b.nodes, node.children[At(word, pos)])
                label == LabelWhileBuilding(b, c)
                m == IF Len(label) < Len(word) - pos
                     THEN Len(label) ELSE Len(word) - pos
            IN /\ Len(label) > 0
               /\ SubSeq(label, 1, m) = SubSeq(word, pos + 1, pos + m)
               /\ SpelledFrom(b, word, c.id, pos + m)

\* The builder stands between two phases, the phases of positions 0..i-1
\* being finished.
PhaseFinished == builder.pc = "for" /\ builder.i >= 1

\* C23: after the builder has finished the phase of position i of R$, every
\* suffix of R$[0..=i], and hence every substring of it, is spelled by a
\* path that starts at the root and follows child edges.
C23_ImplicitTree ==
    PhaseFinished =>
        \A k \in 0..(builder.i - 1) :
            SpelledFrom(builder, SubSeq(builder.string, k + 1, builder.i), 0, 0)

\* The child of active_node selected by active_edge, the node the inner loop
\* of the builder looks at.
SelectedChild(b) ==
    At(b.nodes, At(b.nodes, b.active_node).children[At(b.string, b.active_edge)])

\* The step is a walk-down: the inner loop goes round once more.
WalkDownTaken == builder.pc = "loop" /\ builder'.pc = "loop"

\* C24: in the walk-down step of the builder, taken when active_length is at
\* least the length of the child edge selected by active_edge, active_node
\* becomes that child, active_length is reduced by exactly the edge length
\* and active_edge is advanced by exactly the edge length.
C24_WalkDownExact ==
    [][WalkDownTaken =>
          LET child == SelectedChild(builder)
              len == NodeLength(child, builder.global_end)
          IN /\ builder.active_length >= len
             /\ builder'.active_node = child.id
             /\ builder'.active_length = builder.active_length - len
             /\ builder'.active_edge = builder.active_edge + len]_vars

\* The while loop is about to attempt an extension with active_length == 0.
ExtendsAtNode ==
    /\ builder.pc = "while"
    /\ builder.remaining_suffix_count > 0
    /\ builder.active_length = 0

\* C26: whenever an extension is attempted with active_length == 0,
\* active_node is the root; so a leaf created in that branch is attached to
\* the root.
C26_ZeroLengthAtRoot ==
    [][ExtendsAtNode =>
          /\ builder.active_node = 0
          /\ Len(builder'.nodes) > Len(builder.nodes) =>
                LET leaf == builder'.nodes[Len(builder'.nodes)]
                IN /\ leaf.parent = 0
                   /\ At(builder'.nodes, 0).children[At(builder.string, builder.i)]
                         = leaf.id]_vars

\* A leaf has just been created in the branch active_length == 0, at a
\* position after the first one.
C26_Witness ==
    /\ builder.pc = "while"
    /\ builder.active_length = 0
    /\ builder.i >= 1
    /\ Len(builder.nodes) >= 2
    /\ builder.nodes[Len(builder.nodes)].start = builder.i
    /\ builder.nodes[Len(builder.nodes)].parent = builder.active_node
    /\ builder.last_new_node = None

\* C28: at every point of the construction and in the final tree, for every
\* node p and every entry (k -> c) of the children map of p: the parent of
\* node c is p, k is the first element of the edge label of c (the text
\* element at c.start), the edge label of c is not empty, and the id of c is
\* its index in the node arena.
C28_ChildrenMaps ==
    \A p \in 0..(Len(builder.nodes) - 1) :
        \A k \in DOMAIN At(builder.nodes, p).children :
            LET id == At(builder.nodes, p).children[k]
            IN /\ 0 <= id /\ id < Len(builder.nodes)
               /\ At(builder.nodes, id).id = id
               /\ At(builder.nodes, id).parent = p
               /\ At(builder.nodes, id).start < Len(builder.string)
               /\ k = At(builder.string, At(builder.nodes, id).start)
               /\ NodeLength(At(builder.nodes, id), builder.global_end) > 0

(***************************************************************************)
(* Properties of encode, decode and random_access.                         *)
(***************************************************************************)
\* encode(X, None) on a non-empty list X.
EncodeDefault == n = NoIndices /\ strings # <<>>

\* encode did not return an archive.
EncodeFailed == failure \in {"base_string", "create_suffix_tree", "encode_parts"}

\* C1: for every non-empty X, encode(X, None) followed by decode() returns a
\* list equal to X.
C1_RoundTrip ==
    (EncodeDefault /\ (pc = "panic" \/ decoded.done)) =>
        (pc # "panic" /\ decoded.value = strings)

\* C2: for every non-empty X and every i < |X|, x < |X[i]|,
\* random_access(i, x) on encode(X, None) returns the byte X[i][x].
C2_RandomAccess ==
    EncodeDefault =>
        /\ ~EncodeFailed
        /\ (access.called /\ access.i < Len(strings)
              /\ access.x < Len(At(strings, access.i)))
             => (access.ok /\ access.byte = At(At(strings, access.i), access.x))

\* The reference string has been chosen.
ReferenceChosen == pc \notin {"idle", "start"} /\ failure # "base_string"

\* C3: once the reference string is chosen, every byte of every input
\* string occurs in it.
C3_AlphabetCovered ==
    ReferenceChosen =>
        \A j \in 1..Len(strings) : BytesOf(strings[j]) \subseteq BytesOf(reference)

\* The factor lists obtained by factorizing the inputs one after another.
SequentialData == [j \in 1..Len(strings) |-> Factorize(tree, strings[j]).list]

\* C4: whatever the interleaving of the workers, the archive returned by
\* encode_parts holds the factor list of input i at position i.
C4_InputOrder ==
    pc = "encoded" =>
        /\ Len(archive.data) = Len(strings)
        /\ archive.data = SequentialData

\* An archive of two different factor lists whose second one was stored
\* first.
C4_Witness ==
    /\ pc = "encoded"
    /\ Len(writes) = 2
    /\ writes[1] = 1
    /\ archive.data[1] # archive.data[2]
    /\ archive.data[2] # <<>>

\* A returned tree with a node that is neither the root nor a leaf.
C9_Witness ==
    /\ BuiltTree
    /\ \E j \in 1..Len(tree.nodes) : IsInternalNode(tree.nodes[j])

\* The len fields of an encoded string start at 0 and grow strictly.
LenIncreasing(encoded_string) ==
    /\ encoded_string # <<>> => encoded_string[1].len = 0
    /\ \A k \in 1..(Len(encoded_string) - 1) :
          encoded_string[k].len < encoded_string[k + 1].len

\* C15: in every encoded sequence produced by encode_parts the first factor
\* has cum (the field len) 0 and the cum values of consecutive factors are
\* strictly increasing.
C15_CumIncreasing ==
    /\ \A j \in 1..Len(local) : LenIncreasing(local[j])
    /\ pc = "encoded" => \A j \in 1..Len(archive.data) : LenIncreasing(archive.data[j])

\* An archive that holds a sequence of at least two factors.
C15_Witness ==
    /\ pc = "encoded"
    /\ \E j \in 1..Len(archive.data) : Len(archive.data[j]) >= 2

\* The cum that follows factor k of the encoded string: the cum of the
\* next factor, the byte length of the input after the last one.
NextCum(encoded_string, k, input) ==
    IF k < Len(encoded_string) THEN encoded_string[k + 1].len ELSE Len(input)

\* C16: for every factor {cum, start, end} of every encoded sequence,
\* end - start = cum' - cum, where cum' is the cum of the next factor of the
\* sequence, or the byte length of the original input for the last factor.
C16_FactorLengths ==
    pc = "encoded" =>
        \A j \in 1..Len(archive.data) :
            \A k \in 1..Len(archive.data[j]) :
                LET part == archive.data[j][k]
                IN part.range[2] - part.range[1]
                      = NextCum(archive.data[j], k, strings[j]) - part.len

\* An archive with the factors of an input of two bytes or more.
C16_Witness ==
    /\ pc = "encoded"
    /\ \E j \in 1..Len(archive.data) :
          /\ Len(strings[j]) >= 2
          /\ archive.data[j] # <<>>

\* encode_parts has been entered: the tree of the reference exists.
InEncodeParts == pc \in {"encoding", "encoded"} \/ failure = "encode_parts"

\* The position at which the while loop of a task stopped.
StopIndex(r) ==
    IF r.list = <<>> THEN 0
    ELSE LET last == r.list[Len(r.list)]
         IN last.len + (last.range[2] - last.range[1])

\* The positions of input i at which its task calls longest_substring.
ReachedPositions(i) ==
    LET r == Factorize(tree, At(strings, i))
    IN {p \in {r.list[k].len : k \in 1..Len(r.list)} \cup {StopIndex(r)} :
           p < Len(At(strings, i))}

\* The positions reached in input i whose byte does not occur in R.
AbsentPositions(i) ==
    IF BytesOf(At(strings, i)) \subseteq BytesOf(reference) THEN {}
    ELSE {p \in ReachedPositions(i) :
              At(At(strings, i), p) \notin BytesOf(reference)}

\* Encoding does not return an archive when the task of input i reaches a
\* byte that does not occur in R.
FailsOnAbsentByte ==
    InEncodeParts =>
        \A i \in Workers :
            AbsentPositions(i) # {} =>
                /\ At(wpc, i) \in {"factorize", "panicked"}
                /\ pc # "encoded"
                /\ archive = NoArchive
                /\ pc = "panic" => failure = "encode_parts"

\* C20: when the factorizer reaches a position of some input whose byte does
\* not occur in R, encoding fails (no archive is returned) with an error
\* that identifies the offending input and the offending byte: no other
\* input or byte gives the same error.
C20_ErrorIdentifies ==
    /\ FailsOnAbsentByte
    /\ InEncodeParts =>
          \A i \in Workers : \A p \in AbsentPositions(i) :
              \A j \in Workers : \A c \in 0..255 :
                  <<j, c>> # <<i, At(At(strings, i), p)>>
                      => ExpectPayload(j, c) # ExpectPayload(i, At(At(strings, i), p))

\* C20 as amended: when the factorizer reaches a position of some input whose
\* byte does not occur in R, encoding fails (no archive is returned): the
\* task panics with the message "Reference string did not contain substring",
\* whatever the input and the byte.
C20_AbsentByteFails ==
    /\ FailsOnAbsentByte
    /\ InEncodeParts =>
          \A i \in Workers : \A p \in AbsentPositions(i) :
              ExpectPayload(i, At(At(strings, i), p))
                  = "Reference string did not contain substring"

\* encode has failed in encode_parts, where the task of some input reached a
\* byte that is not in R.
C20_Witness ==
    /\ pc = "panic"
    /\ failure = "encode_parts"
    /\ \E i \in Workers : AbsentPositions(i) # {} /\ At(wpc, i) = "panicked"

\* The usize values the while loop of a task computes from position index
\* on, in the order it computes them: len, then start and end of the range
\* longest_substring returns.
RECURSIVE ComputedFrom(_, _, _, _)
ComputedFrom(t, base_bytes, index, len) ==
    IF index >= Len(base_bytes)
    THEN <<>>
    ELSE LET r == LongestSubstring(t, SubSeq(base_bytes, index + 1, Len(base_bytes)))
         IN IF ~r.some THEN <<len>>
            ELSE IF r.end <= r.start THEN <<len, r.start, r.end>>
            ELSE <<len, r.start, r.end>>
                    \o ComputedFrom(t, base_bytes, index + (r.end - r.start),
                                    len + (r.end - r.start))

\* The values computed for input i.
ComputedFields(i) == ComputedFrom(tree, At(strings, i), 0, 0)

\* Some value computed for input i is larger than the largest value of U.
ExceedsU(i) ==
    LET fields == ComputedFields(i)
    IN \E k \in 1..Len(fields) : fields[k] > UMax

\* The fields of an encoded string converted back to usize, part by part.
StoredFields(encoded_string) ==
    Concat([k \in 1..Len(encoded_string) |->
               <<encoded_string[k].len, encoded_string[k].range[1],
                 encoded_string[k].range[2]>>])

\* C21: when some factor field (cum, start or end) exceeds the largest value
\* of the integer type U, encode fails at encode time and never stores a
\* wrapped or truncated value; whenever encode returns, every stored field
\* converts back to the exact usize value that was computed.
C21_NoWrap ==
    /\ InEncodeParts =>
          \A i \in Workers :
              ExceedsU(i) =>
                  /\ At(wpc, i) \in {"factorize", "panicked"}
                  /\ At(local, i) = <<>>
                  /\ At(list, i) = <<>>
                  /\ pc # "encoded"
                  /\ archive = NoArchive
                  /\ pc = "panic" => failure = "encode_parts"
    /\ pc = "encoded" =>
          \A i \in Workers :
              LET fields == ComputedFields(i)
              IN /\ StoredFields(At(archive.data, i)) = fields
                 /\ \A k \in 1..Len(fields) : fields[k] <= UMax

\* encode has failed in encode_parts, where a field of some input did not
\* fit U although every byte of the input occurs in R.
C21_Witness ==
    /\ pc = "panic"
    /\ failure = "encode_parts"
    /\ \E i \in Workers :
          /\ ExceedsU(i)
          /\ At(wpc, i) = "panicked"
          /\ BytesOf(At(strings, i)) \subseteq BytesOf(reference)

\* C22: encode on an empty list of strings is rejected for every value of
\* the index argument n, Some of an empty index list included: no archive is
\* returned.
C22_EmptyRejected ==
    strings = <<>> =>
        /\ pc # "encoded"
        /\ archive = NoArchive

\* The tasks that have stored their list.
Written == {writes[k] : k \in 1..Len(writes)}

\* C25: in encode_parts the worker of input i writes only slot i of the
\* pre-sized list, every slot is written exactly once (never twice, and once
\* when encode_parts returns), no two writes overlap in time (a write
\* happens while its task holds the mutex), and when encode_parts returns
\* no slot holds the empty placeholder unless its input is empty.
C25_DisjointWrites ==
    /\ [][writes' # writes =>
            \E i \in Workers :
                /\ holder = i
                /\ At(wpc, i) = "store"
                /\ i \notin Written
                /\ writes' = Append(writes, i)
                /\ list' = [list EXCEPT ![i + 1] = At(local, i)]]_vars
    /\ [][(pc = "encoding" /\ list' # list) => writes' # writes]_vars
    /\ [](\A i, j \in Workers :
             (pc = "encoding" /\ At(wpc, i) = "store" /\ At(wpc, j) = "store")
                 => (i = j /\ holder = i))
    /\ [](pc = "encoded" =>
             /\ Len(writes) = Len(strings)
             /\ Written = Workers
             /\ \A i \in Workers :
                   At(archive.data, i) = <<>> => At(strings, i) = <<>>)

\* One task has stored its factors and another one holds the mutex, about
\* to store its own.
C25_Witness ==
    /\ pc = "encoding"
    /\ \E i, j \in Workers :
          /\ i # j
          /\ At(wpc, i) = "done"
          /\ At(list, i) # <<>>
          /\ At(wpc, j) = "store"
          /\ holder = j
          /\ At(local, j) # <<>>
          /\ At(list, j) = <<>>

\* Every factor of the archive a is a non-empty range of its base_data.
FactorsInBase(a) ==
    \A j \in 1..Len(a.data) :
        \A k \in 1..Len(a.data[j]) :
            LET start == a.data[j][k].range[1]
                end == a.data[j][k].range[2]
            IN 0 <= start /\ start < end /\ end <= Len(a.base_data)

\* C27: for every archive returned by encode or encode_reference_merge,
\* every factor satisfies 0 <= start < end <= |R|, where R is the base_data
\* of the archive, the reference without the sentinel; so decode reads
\* inside R and no factor covers the position of the sentinel.
C27_FactorsInRange ==
    /\ pc = "encoded" =>
          /\ archive.base_data = reference
          /\ FactorsInBase(archive)
          /\ \A j \in 1..Len(archive.data) :
                DecodeString(archive.base_data, archive.data[j]).ok
    /\ merge.pc = "encoded" => FactorsInBase(merge.rlz)
    /\ merge.pc = "returned" => FactorsInBase(merge.best_rlz.value)

\* An archive with a factor of two bytes or more that does not start at the
\* first byte of R.
C27_Witness ==
    /\ pc = "encoded"
    /\ \E j \in 1..Len(archive.data) :
          \E k \in 1..Len(archive.data[j]) :
              /\ archive.data[j][k].range[1] >= 1
              /\ archive.data[j][k].range[2] >= archive.data[j][k].range[1] + 2

\* random_access(i, x) has been called on the archive with i < |X| and
\* x < |X[i]|.
ValidAccess ==
    /\ pc = "encoded"
    /\ access.called
    /\ access.i < Len(strings)
    /\ access.x < Len(At(strings, access.i))

\* The result of the binary search of the last random_access call.
AccessSearch == BinarySearchByLen(At(archive.data, access.i), access.x)

\* The position in the encoded string that random_access takes from it.
AccessIndex ==
    IF AccessSearch.found THEN AccessSearch.index ELSE AccessSearch.index - 1

\* C29: for every archive produced by encode and every (i, x) with i < |X|
\* and x < |X[i]|, the factor f selected by the binary search of
\* random_access is the last factor with cum <= x and x lies inside it
\* (f.cum <= x < f.cum + (f.end - f.start)); insertion point minus one is
\* never taken with insertion point 0, and the byte read is the one at
\* f.start + (x - f.cum) < f.end.
C29_FactorSelected ==
    ValidAccess =>
        LET encoded_string == At(archive.data, access.i)
        IN /\ AccessSearch.found \/ AccessSearch.index >= 1
           /\ 0 <= AccessIndex /\ AccessIndex < Len(encoded_string)
           /\ LET f == At(encoded_string, AccessIndex)
                   pos == f.range[1] + (access.x - f.len)
               IN /\ f.len <= access.x
                  /\ \A k \in 1..Len(encoded_string) :
                        encoded_string[k].len <= access.x => k - 1 <= AccessIndex
                  /\ access.x < f.len + (f.range[2] - f.range[1])
                  /\ f.range[1] <= pos /\ pos < f.range[2]
                  /\ access.ok
                  /\ access.byte = At(archive.base_data, pos)

\* A random_access whose x is not the cum of any factor: the search ends
\* with Err and the factor before the insertion point is taken.
C29_Witness ==
    /\ ValidAccess
    /\ ~AccessSearch.found
    /\ access.ok

\* Every byte of input i occurs in R.
BytesInR(i) == BytesOf(At(strings, i)) \subseteq BytesOf(reference)

\* The task of input i has left its while loop with its list complete.
LoopEnded(i) == At(wpc, i) \in {"lock", "store", "done"}

\* The value of index before iteration k of the loop that produced the
\* encoded string: the lengths of the factors pushed before it added up.
RECURSIVE IndexBefore(_, _)
IndexBefore(encoded_string, k) ==
    IF k <= 1 THEN 0
    ELSE IndexBefore(encoded_string, k - 1)
            + (encoded_string[k - 1].range[2] - encoded_string[k - 1].range[1])

\* The loop of the task of input i ends, and it ends with index == |S|:
\* every iteration starts below |S| with len equal to index and advances
\* index by at least 1 and at most |S| - index.
LoopRunsToEnd(i) ==
    /\ At(wpc, i) # "panicked"
    /\ At(wpc, i) = "factorize" => Factorize(tree, At(strings, i)).status = "ok"
    /\ LoopEnded(i) =>
          LET encoded_string == At(local, i)
              S == At(strings, i)
          IN /\ \A k \in 1..Len(encoded_string) :
                   LET advance == encoded_string[k].range[2]
                                     - encoded_string[k].range[1]
                       index == IndexBefore(encoded_string, k)
                   IN /\ index < Len(S)
                      /\ encoded_string[k].len = index
                      /\ advance >= 1
                      /\ advance <= Len(S) - index
             /\ IndexBefore(encoded_string, Len(encoded_string) + 1) = Len(S)

MergeEnded == merge.pc \in {"returned", "panic"}

\* encode_reference_merge runs on a non-empty list of named inputs.
MergeCalled == merge.pc # "idle" /\ merge.strings # <<>>

\* C17: the reference-merge loop terminates for every non-empty list of
\* named inputs: it performs finitely many iterations (never more than one
\* more than there are inputs, and no iteration is left unfinished by a
\* factorization that does not advance), and every accepted iteration has
\* an overall ratio strictly lower than the one accepted before it.
C17_MergeTerminates ==
    /\ [][(merge.pc = "analysed" /\ merge'.pc = "loop")
            => RateLess(merge'.best_compression_rate, merge.best_compression_rate)]_vars
    /\ [](MergeCalled => merge.i <= Len(merge.strings) + 1)
    /\ [](merge.pc # "stuck")

\* The loop has returned after two accepted iterations and a third one that
\* was not better.
C17_Witness ==
    /\ merge.pc = "returned"
    /\ merge.i = 3
    /\ Len(merge.reference_names) = 3

\* C18: encode_reference_merge on a non-empty list of named inputs always
\* returns an archive: when an iteration is not strictly better than the
\* best one so far, the archive of the best iteration is returned, and that
\* archive was built from the chosen-set of that iteration.
C18_MergeReturnsBest ==
    (MergeCalled /\ merge.pc \notin {"start", "loop", "encoded", "analysed"}) =>
        /\ merge.pc = "returned"
        /\ merge.best_rlz.some
        /\ EncodeWithNames(merge.strings, merge.best_names).status = "ok"
        /\ merge.best_rlz.value
              = EncodeWithNames(merge.strings, merge.best_names).value
        /\ ~RateLess(merge.compressed_rate, merge.best_compression_rate)

\* The inputs whose per-input ratio no other input exceeds.
WorstInputs(analysis_result) ==
    {j \in 1..Len(analysis_result) :
        \A k \in 1..Len(analysis_result) :
            ~RateLess(CompressedRate(analysis_result[j]),
                      CompressedRate(analysis_result[k]))}

\* An iteration has just been accepted.
JustAccepted == merge.pc = "loop" /\ merge.i >= 1

\* C19: in each accepted iteration the name added to the chosen-set is the
\* name of an input whose ratio compressed size / raw size is the largest
\* among all inputs.
C19_WorstAdded ==
    JustAccepted =>
        \E j \in WorstInputs(merge.analysis_result) :
            /\ merge.reference_names[Len(merge.reference_names)]
                  = merge.analysis_result[j].name
            /\ \E k \in 1..Len(merge.strings) :
                  /\ merge.strings[k].name = merge.analysis_result[j].name
                  /\ Len(merge.strings[k].string) = merge.analysis_result[j].r_size
                  /\ InternalMemorySingleList(merge.rlz.data[k])
                        = merge.analysis_result[j].c_size

\* An accepted iteration whose inputs do not all have the same ratio.
C19_Witness ==
    /\ JustAccepted
    /\ WorstInputs(merge.analysis_result) # 1..Len(merge.analysis_result)

====
